---- MODULE Spec2Model ----
(***************************************************************************)
(* Credential-audit scripts of the data-normalization platform:            *)
(*   scripts/add_credentials.py          (catalog merger)                  *)
(*   scripts/find_missing_credentials.py (credential residue, tally)       *)
(*   scripts/analyze_actual_output.py    (credential residue, second form) *)
(*   scripts/identify_parsing_failures.py (formatting anomalies)           *)
(*                                                                         *)
(* A Python str is the sequence of its code points; S("M.D.") is the str  *)
(* "M.D.".                                                                 *)
(***************************************************************************)
EXTENDS Integers, Sequences, FiniteSets, TLC

VARIABLES
    pc,           \* add_credentials.py: "idle", "listed" (a filtered list is waiting), "ran"
    file,         \* NameEnhanced.ts: the lines between ALL_CREDENTIALS = [ and ] as const;
    lines,        \* missing_credentials_filtered.txt as read by the last run of main()
    existing,     \* main(): existing
    to_add,       \* main(): to_add
    all_creds,    \* main(): all_creds
    new_creds,    \* main(): new_creds
    row,          \* the (Name, First Name, Last Name) row of the two CSV files
    existing_creds, \* find_missing_credentials.py: the normalized keys already known
    ran,          \* the scripts that have analysed the row
    potential,    \* find_missing_credentials.analyze_csvs(): potential
    missing_creds,\* find_missing_credentials.analyze_csvs(): the Counter returned
    examples,     \* find_missing_credentials.analyze_csvs(): the examples returned
    potential_creds, \* analyze_actual_output.analyze_output(): potential_creds
    reasons,      \* identify_parsing_failures.analyze_failures(): failure_reasons
    input_rows,   \* the aligned rows of the two CSV files, in the order they are read
    first         \* the inputs and the results of the first run over the same inputs

mergeVars == <<pc, file, lines, existing, to_add, all_creds, new_creds>>
rowVars == <<row, existing_creds, ran, potential, missing_creds, examples, potential_creds, reasons>>
runVars == <<input_rows, first>>
vars == <<pc, file, lines, existing, to_add, all_creds, new_creds,
          row, existing_creds, ran, potential, missing_creds, examples,
          potential_creds, reasons, input_rows, first>>

----------------------------------------------------------------------------
(* Python str values and the built-in str operations the scripts use.      *)

UpperLetters == "ABCDEFGHIJKLMNOPQRSTUVWXYZ"
LowerLetters == "abcdefghijklmnopqrstuvwxyz"
Digits == "0123456789"

IndexIn(text, ch) == CHOOSE i \in 1..Len(text) : SubSeq(text, i, i) = ch
OccursIn(text, ch) == \E i \in 1..Len(text) : SubSeq(text, i, i) = ch

\* ord(ch) of the ASCII characters the inputs are written with
Code(ch) ==
    CASE OccursIn(UpperLetters, ch) -> 64 + IndexIn(UpperLetters, ch)
      [] OccursIn(LowerLetters, ch) -> 96 + IndexIn(LowerLetters, ch)
      [] OccursIn(Digits, ch) -> 47 + IndexIn(Digits, ch)
      [] ch = " " -> 32
      [] ch = "\"" -> 34
      [] ch = "#" -> 35
      [] ch = "," -> 44
      [] ch = "-" -> 45
      [] ch = "." -> 46
      [] ch = "?" -> 63
      [] ch = "_" -> 95

\* the Python str with the text s, as the sequence of its code points
S(s) == [i \in 1..Len(s) |-> Code(SubSeq(s, i, i))]

IsUpperChar(c) == c \in 65..90
IsLowerChar(c) == c \in 97..122
IsDigitChar(c) == c \in 48..57

\* str.isspace() of one character, as str.strip() and str.split() use it
IsSpace(c) == c \in {9, 10, 11, 12, 13, 32}

\* \w of the re module on ASCII text: letters, digits, underscore
IsWordChar(c) == IsUpperChar(c) \/ IsLowerChar(c) \/ IsDigitChar(c) \/ c = 95

ToUpper(c) == IF IsLowerChar(c) THEN c - 32 ELSE c

Dot == Code(".")
Comma == Code(",")
Hyphen == Code("-")
Space == Code(" ")
Quote == Code("\"")
Hash == Code("#")

\* str.upper()
upper(s) == [i \in 1..Len(s) |-> ToUpper(s[i])]

\* s.replace(c, '') for a one-character c
remove(s, c) == SelectSeq(s, LAMBDA x : x # c)

\* a < b on str
StrLt(a, b) ==
    \E i \in 1..Len(b) :
        /\ \A j \in 1..(i - 1) : j <= Len(a) /\ a[j] = b[j]
        /\ (i > Len(a) \/ a[i] < b[i])

SetMin(X) == CHOOSE x \in X : \A y \in X : x <= y
SetMax(X) == CHOOSE x \in X : \A y \in X : y <= x

\* str.strip()
strip(s) ==
    LET keep == {i \in 1..Len(s) : ~IsSpace(s[i])}
    IN  IF keep = {} THEN <<>> ELSE SubSeq(s, SetMin(keep), SetMax(keep))

\* c in s
Contains(s, c) == \E i \in 1..Len(s) : s[i] = c

\* s.startswith(p)
StartsWith(s, p) == Len(p) <= Len(s) /\ SubSeq(s, 1, Len(p)) = p

\* s.endswith(p)
EndsWith(s, p) == Len(p) <= Len(s) /\ SubSeq(s, Len(s) - Len(p) + 1, Len(s)) = p

\* s.split(c): the pieces between the occurrences of the separator c
RECURSIVE split(_, _)
split(s, c) ==
    LET at == {i \in 1..Len(s) : s[i] = c}
    IN  IF at = {} THEN <<s>>
        ELSE <<SubSeq(s, 1, SetMin(at) - 1)>>
                 \o split(SubSeq(s, SetMin(at) + 1, Len(s)), c)

\* s.split(): the maximal runs of non-whitespace characters
RECURSIVE split_ws(_)
split_ws(s) ==
    LET t == strip(s)
        sp == {i \in 1..Len(t) : IsSpace(t[i])}
    IN  IF t = <<>> THEN <<>>
        ELSE IF sp = {} THEN <<t>>
        ELSE <<SubSeq(t, 1, SetMin(sp) - 1)>>
                 \o split_ws(SubSeq(t, SetMin(sp) + 1, Len(t)))

----------------------------------------------------------------------------
(* scripts/add_credentials.py                                              *)

\* normalize(s) of insert_credentials_alphabetically
normalize(s) == upper(remove(s, Dot))

\* a faulty variant: the key forgets to normalize
sort_key_Raw(x) == <<x, x>>

\* the sort key of line 50: lambda x: (normalize(x), x)
sort_key(x) == <<normalize(x), x>>

\* a faulty variant: the sort compares the normalized keys only
KeyLt_NormalizedOnly(k1, k2) == StrLt(k1[1], k2[1])

\* k1 < k2 on the key tuples, as Python compares tuples of str
KeyLt(k1, k2) ==
    \/ StrLt(k1[1], k2[1])
    \/ k1[1] = k2[1] /\ StrLt(k1[2], k2[2])

\* list.sort is stable: k goes after every entry whose key is not greater
RECURSIVE SortedInsert(_, _)
SortedInsert(sorted, k) ==
    IF sorted = <<>> THEN <<k>>
    ELSE IF KeyLt(k, Head(sorted)) THEN <<k>> \o sorted
    ELSE <<Head(sorted)>> \o SortedInsert(Tail(sorted), k)

RECURSIVE SortKeys(_)
SortKeys(keys) ==
    IF keys = <<>> THEN <<>>
    ELSE SortedInsert(SortKeys(SubSeq(keys, 1, Len(keys) - 1)), keys[Len(keys)])

\* all_creds.sort(key=lambda x: (normalize(x), x)): each key is computed once
sort_credentials(creds) ==
    LET keys == SortKeys([i \in 1..Len(creds) |-> sort_key(creds[i])])
    IN  [i \in 1..Len(creds) |-> keys[i][2]]

\* a faulty variant: membership is tested on the raw literal
filter_new_Raw(old, cands) ==
    LET existing_raw == {old[i] : i \in 1..Len(old)}
    IN  SelectSeq(cands, LAMBDA c : c \notin existing_raw)

\* a faulty variant: the keys of the existing entries keep their periods
filter_new_UpperOnly(old, cands) ==
    LET existing_normalized == {upper(old[i]) : i \in 1..Len(old)}
    IN  SelectSeq(cands, LAMBDA c : normalize(c) \notin existing_normalized)

\* new_creds = [c for c in to_add if normalize(c) not in existing_normalized]
filter_new(old, cands) ==
    LET existing_normalized == {normalize(old[i]) : i \in 1..Len(old)}
    IN  SelectSeq(cands, LAMBDA c : normalize(c) \notin existing_normalized)

\* a faulty variant: every candidate is merged, not only the new ones
insert_credentials_alphabetically_AllCandidates(old, cands) ==
    [all_creds |-> sort_credentials(old \o cands), new_creds |-> filter_new(old, cands)]

\* insert_credentials_alphabetically, lines 38-52
insert_credentials_alphabetically(old, cands) ==
    LET fresh == filter_new(old, cands)
    IN  [all_creds |-> sort_credentials(old \o fresh), new_creds |-> fresh]

\* a faulty variant: only the comments are skipped
keep_line_CommentsOnly(line) == ~StartsWith(line, <<Hash>>)

\* load_credentials_to_add, line 19: skip the empty lines and the comments
keep_line(line) == line # <<>> /\ ~StartsWith(line, <<Hash>>)

RECURSIVE load_credentials_to_add(_)
load_credentials_to_add(ls) ==
    IF ls = <<>> THEN <<>>
    ELSE LET line == strip(Head(ls))
         IN  (IF keep_line(line) THEN <<line>> ELSE <<>>)
                 \o load_credentials_to_add(Tail(ls))

\* update_credentials_file: one line  "<cred>",  per credential
format_line(cred) == <<Space, Space, Quote>> \o cred \o <<Quote, Comma>>

write_credentials(creds) == [i \in 1..Len(creds) |-> format_line(creds[i])]

\* re.match(r'^\s*"([^"]+)",?\s*$', line): <<group(1)>>, or <<>> when no match
match_credential_line(line) ==
    LET nonsp == {i \in 1..Len(line) : ~IsSpace(line[i])}
    IN  IF nonsp = {} THEN <<>>
        ELSE LET p == SetMin(nonsp)
                 q == {i \in (p + 1)..Len(line) : line[i] = Quote}
             IN  IF line[p] # Quote \/ q = {} THEN <<>>
                 ELSE LET e == SetMin(q)
                          rest == SubSeq(line, e + 1, Len(line))
                          tail == IF rest # <<>> /\ rest[1] = Comma THEN Tail(rest) ELSE rest
                      IN  IF e > p + 1 /\ \A i \in 1..Len(tail) : IsSpace(tail[i])
                          THEN <<SubSeq(line, p + 1, e - 1)>>
                          ELSE <<>>

RECURSIVE load_existing_credentials(_)
load_existing_credentials(content) ==
    IF content = <<>> THEN <<>>
    ELSE match_credential_line(Head(content)) \o load_existing_credentials(Tail(content))

----------------------------------------------------------------------------
(* Regular expressions shared by the two credential extractors.             *)

\* what $ leaves to match: the text without one trailing newline
BeforeEnd(s) == IF s # <<>> /\ s[Len(s)] = 10 THEN SubSeq(s, 1, Len(s) - 1) ELSE s

AllUpper(s) == \A i \in 1..Len(s) : IsUpperChar(s[i])

\* re.match(r'^[A-Z]{lo,hi}$', s)
match_caps(s, lo, hi) ==
    LET body == BeforeEnd(s)
    IN  Len(body) >= lo /\ Len(body) <= hi /\ AllUpper(body)

\* re.match(r'^[A-Z]+-[A-Z]+$', s)
match_hyphenated(s) ==
    LET body == BeforeEnd(s)
    IN  \E h \in 2..(Len(body) - 1) :
            /\ body[h] = Hyphen
            /\ AllUpper(SubSeq(body, 1, h - 1))
            /\ AllUpper(SubSeq(body, h + 1, Len(body)))

\* \b at the gap before s[i] (i = Len(s) + 1: the end of s)
WordBoundary(s, i) ==
    LET before == i > 1 /\ IsWordChar(s[i - 1])
        after == i <= Len(s) /\ IsWordChar(s[i])
    IN  before # after

----------------------------------------------------------------------------
(* scripts/find_missing_credentials.py                                      *)

\* Pattern 1, line 49
fm_last_name_is_credential(last_name) ==
    last_name # <<>> /\ match_caps(last_name, 2, 10)

\* Pattern 2, line 53
fm_last_name_is_hyphenated(last_name) ==
    last_name # <<>> /\ Contains(last_name, Hyphen) /\ match_hyphenated(last_name)

\* Pattern 3, lines 62-67: one part of the text after the first comma
fm_part_credential(part) ==
    LET normalized == remove(remove(part, Dot), Space)
    IN  IF match_caps(normalized, 2, 10) THEN <<normalized>>
        ELSE IF Contains(normalized, Hyphen) /\ match_hyphenated(normalized)
             THEN <<normalized>>
        ELSE <<>>

RECURSIVE fm_parts_credentials(_)
fm_parts_credentials(parts) ==
    IF parts = <<>> THEN <<>>
    ELSE fm_part_credential(strip(Head(parts))) \o fm_parts_credentials(Tail(parts))

\* name.split(',', 1)[1]: the text after the first comma
AfterFirstComma(name) ==
    LET at == {i \in 1..Len(name) : name[i] = Comma}
    IN  SubSeq(name, SetMin(at) + 1, Len(name))

\* Pattern 3, lines 57-67
fm_after_comma(name) ==
    IF Contains(name, Comma)
    THEN fm_parts_credentials(split(strip(AfterFirstComma(name)), Comma))
    ELSE <<>>

\* a faulty variant: the test len(words) >= 2 of line 72 is left out
fm_last_word_AnyWordCount(name) ==
    LET words == split_ws(strip(split(name, Comma)[1]))
    IN  IF Len(words) >= 1 /\ match_caps(words[Len(words)], 2, 10)
        THEN <<words[Len(words)]>>
        ELSE <<>>

\* Pattern 4, lines 70-76: the last word before the first comma
fm_last_word(name) ==
    LET words == split_ws(strip(split(name, Comma)[1]))
    IN  IF Len(words) >= 2 /\ match_caps(words[Len(words)], 2, 10)
        THEN <<words[Len(words)]>>
        ELSE <<>>

\* extract_potential_credentials(name, last_name), lines 37-78
fm_extract_potential_credentials(name, last_name) ==
    (IF fm_last_name_is_credential(last_name) THEN <<last_name>> ELSE <<>>)
        \o (IF fm_last_name_is_hyphenated(last_name) THEN <<last_name>> ELSE <<>>)
        \o fm_after_comma(name)
        \o fm_last_word(name)

\* missing_creds[normalized] += 1 on a Counter
CounterAdd(counter, key) ==
    IF key \in DOMAIN counter THEN [counter EXCEPT ![key] = @ + 1]
    ELSE counter @@ (key :> 1)

\* lines 111-125: the tally of one row's candidates; acc = [missing_creds, examples]
RECURSIVE fm_tally(_, _, _, _, _)
fm_tally(acc, creds, i, r, known) ==
    IF creds = <<>> THEN acc
    ELSE LET normalized == upper(remove(Head(creds), Dot))
             counted == CounterAdd(acc.missing_creds, normalized)
             example == [row |-> i, credential |-> normalized,
                         input_name |-> r.Name, output_last |-> r.Last]
         IN  IF normalized \in known THEN fm_tally(acc, Tail(creds), i, r, known)
             ELSE fm_tally([missing_creds |-> counted,
                            examples |-> IF counted[normalized] <= 5
                                         THEN Append(acc.examples, example)
                                         ELSE acc.examples],
                           Tail(creds), i, r, known)

\* lines 102-109: the candidates of one row; rows with an empty field are skipped
fm_row_potential(r) ==
    IF r.Name = <<>> \/ r.Last = <<>> THEN <<>>
    ELSE fm_extract_potential_credentials(r.Name, r.Last)

\* analyze_csvs, lines 87-127, over the aligned rows; row i of the file is rows[i - 1]
RECURSIVE fm_analyze_from(_, _, _, _)
fm_analyze_from(acc, rows, i, known) ==
    IF rows = <<>> THEN acc
    ELSE fm_analyze_from(fm_tally(acc, fm_row_potential(Head(rows)), i, Head(rows), known),
                         Tail(rows), i + 1, known)

analyze_csvs(rows, known) ==
    fm_analyze_from([missing_creds |-> <<>>, examples |-> <<>>], rows, 2, known)

----------------------------------------------------------------------------
(* scripts/analyze_actual_output.py                                         *)

\* the alternatives of the two credential_patterns, lines 41-44
CREDENTIAL_SUFFIXES == {
    S("Jr"), S("Sr"), S("II"), S("III"), S("IV"), S("V"), S("PhD"), S("MD"), S("MBA"),
    S("MS"), S("MA"), S("BS"), S("BA"), S("DDS"), S("DVM"), S("EdD"), S("JD"),
    S("LLM"), S("CPA"), S("PE"), S("RN"), S("LPN"), S("LCSW"), S("PMP"), S("CSM"),
    S("CISSP"), S("CISM")}

RETIRED_SUFFIXES == {S("Esq"), S("Ret"), S("Retired")}

\* re.match(r'.*\b(w1|w2|...)\.?$', s, re.IGNORECASE)
match_suffix(s, alternatives) ==
    LET body == BeforeEnd(s)
    IN  \E w \in alternatives : \E dot \in 0..1 :
            LET from == Len(body) - dot - Len(w) + 1
            IN  /\ from >= 1
                /\ dot = 1 => body[Len(body)] = Dot
                /\ upper(SubSeq(body, from, Len(body) - dot)) = upper(w)
                /\ WordBoundary(body, from)
                /\ \A i \in 1..(from - 1) : body[i] # 10

\* a character of [A-Za-z\-\.]
IsCredentialChar(c) == IsUpperChar(c) \/ IsLowerChar(c) \/ c = Hyphen \/ c = Dot

\* re.search(r'\b([A-Za-z\-\.]+)\.?$', s).group(1): the leftmost word boundary from
\* which only letters, hyphens and periods follow; <<>> when there is none
search_trailing_token(s) ==
    LET body == BeforeEnd(s)
        starts == {i \in 1..Len(body) :
                      /\ WordBoundary(body, i)
                      /\ \A j \in i..Len(body) : IsCredentialChar(body[j])}
    IN  IF starts = {} THEN <<>>
        ELSE <<SubSeq(body, SetMin(starts), Len(body))>>

\* Pattern 4, lines 46-51, for one of the credential_patterns
aa_suffix_credential(last_name_str, alternatives) ==
    IF match_suffix(last_name_str, alternatives)
    THEN search_trailing_token(last_name_str)
    ELSE <<>>

\* Pattern 3, line 37
aa_hyphenated(last_name_str) ==
    Contains(last_name_str, Hyphen) /\ Len(last_name_str) <= 15

\* extract_potential_credentials(name_str, last_name_str), lines 12-53
aa_extract_potential_credentials(name_str, last_name_str) ==
    IF last_name_str = <<>> \/ last_name_str = name_str THEN <<>>
    ELSE (IF match_caps(last_name_str, 2, 5) THEN <<last_name_str>> ELSE <<>>)
           \o (IF Contains(last_name_str, Dot) /\ Len(last_name_str) <= 10
               THEN <<last_name_str>> ELSE <<>>)
           \o (IF aa_hyphenated(last_name_str) THEN <<last_name_str>> ELSE <<>>)
           \o aa_suffix_credential(last_name_str, CREDENTIAL_SUFFIXES)
           \o aa_suffix_credential(last_name_str, RETIRED_SUFFIXES)

\* analyze_output, lines 84-93: the candidates of one row
aa_row_potential(r) ==
    LET input_name == strip(r.Name)
        output_last_name == strip(r.Last)
    IN  IF input_name = <<>> \/ output_last_name = <<>> THEN <<>>
        ELSE aa_extract_potential_credentials(input_name, output_last_name)

----------------------------------------------------------------------------
(* scripts/identify_parsing_failures.py                                     *)

JOB_KEYWORDS == {
    S("CEO"), S("CFO"), S("COO"), S("CTO"), S("President"), S("VP"),
    S("Vice President"), S("Director"), S("Manager"), S("Executive"), S("Founder"),
    S("Owner"), S("Partner"), S("Coach"), S("Consultant"), S("Specialist"),
    S("Analyst"), S("Coordinator"), S("Administrator"), S("Officer"), S("Leader"),
    S("Head"), S("Chief"), S("Principal"), S("Speaker"), S("Author"),
    S("Photographer"), S("Designer"), S("Developer"), S("Engineer"), S("Architect"),
    S("Strategist"), S("Advisor"), S("Expert")}

\* re.search(rf'\b{keyword}\b', text, re.IGNORECASE)
search_keyword(text, keyword) ==
    \E i \in 1..(Len(text) - Len(keyword) + 1) :
        /\ upper(SubSeq(text, i, i + Len(keyword) - 1)) = upper(keyword)
        /\ WordBoundary(text, i)
        /\ WordBoundary(text, i + Len(keyword))

\* has_job_title, lines 27-34
has_job_title(text) ==
    text # <<>> /\ \E keyword \in JOB_KEYWORDS : search_keyword(text, keyword)

\* the code points of the character class of emoji_pattern, line 41, as the file has it
EMOJI_CHARS == {63, 161, 162, 164, 165, 168, 170, 173, 175, 184, 226, 239, 240,
                338, 339, 352, 353, 376, 381, 710,
                8216, 8217, 8221, 8224, 8225, 8240, 8364}

\* has_emoji, lines 36-42
has_emoji(text) ==
    text # <<>> /\ \E i \in 1..Len(text) : text[i] \in EMOJI_CHARS

\* has_trailing_hyphen, lines 44-48
has_trailing_hyphen(text) ==
    text # <<>> /\ EndsWith(strip(text), <<Hyphen>>)

\* a faulty variant: two words are always suspicious
has_multiple_words_in_last_name_NoHyphenExemption(last_name) ==
    last_name # <<>> /\ Len(split_ws(last_name)) >= 2

\* has_multiple_words_in_last_name, lines 50-61
has_multiple_words_in_last_name(last_name) ==
    IF last_name = <<>> THEN FALSE
    ELSE LET words == split_ws(last_name)
         IN  IF Len(words) > 2 THEN TRUE
             ELSE Len(words) = 2 /\ ~Contains(last_name, Hyphen)

If(cond, reason) == IF cond THEN <<reason>> ELSE <<>>

\* analyze_failures, lines 81-114: failure_reasons of one row
failure_reasons(r) ==
    LET first_name == strip(r.First)
        last_name == strip(r.Last)
    IN  If(first_name = <<>> /\ last_name = <<>>, "empty_names")
          \o If(first_name = <<>> /\ last_name # <<>>, "empty_first_name")
          \o If(first_name # <<>> /\ last_name = <<>>, "empty_last_name")
          \o If(has_job_title(first_name), "job_title_in_first_name")
          \o If(has_job_title(last_name), "job_title_in_last_name")
          \o If(has_emoji(first_name), "emoji_in_first_name")
          \o If(has_emoji(last_name), "emoji_in_last_name")
          \o If(has_trailing_hyphen(first_name), "trailing_hyphen_in_first_name")
          \o If(has_trailing_hyphen(last_name), "trailing_hyphen_in_last_name")
          \o If(has_multiple_words_in_last_name(last_name), "multiple_words_in_last_name")

----------------------------------------------------------------------------
(* Bounds and input pools of the merger.                                   *)

MaxExisting == 2
MaxLines == 2
MaxCatalog == 4

SeqsUpTo(X, n) == UNION {[1..k -> X] : k \in 0..n}


\* literals the stored catalog may start with (in any order)
CatalogLiterals == {S("MD"), S("CPA"), S("Ed.D.")}

\* raw lines of the filtered list
CandidateLines == {S(""), S("# MD"), S(" MD "), S("M.D."), S("cpa"), S("M\"D")}

LineSeqs == SeqsUpTo(CandidateLines, MaxLines)
InitialCatalogs == SeqsUpTo(CatalogLiterals, MaxExisting)

----------------------------------------------------------------------------
(* Bounds and input pools of the row analyses.                             *)

MaxCaps == 11
MaxWords == 3

\* all-caps last names of every length up to MaxCaps: "M", "MB", "MBA", ...
CapsText == S("MBACPAPMPRNMDJDBS")
CapsLasts == {SubSeq(CapsText, 1, n) : n \in 1..MaxCaps}

\* last names of up to MaxWords words, one space between the words
WordTokens == {S("Coach"), S("Smith-Jones"), S("Berg-")}

RECURSIVE JoinWords(_)
JoinWords(words) ==
    IF words = <<>> THEN <<>>
    ELSE IF Len(words) = 1 THEN words[1]
    ELSE words[1] \o <<Space>> \o JoinWords(Tail(words))

WordLasts == {JoinWords(ws) : ws \in SeqsUpTo(WordTokens, MaxWords)}

OtherLasts == {S("PMI-ACP"), S("Garcia-Lopez"), S("Featherstone-Haugh"), S("Jr."),
               S("Doe"), S("Smith MD"), S(" van  Berg "), S("O?Neil"), S("McDonald PhD.")}

LastNames == CapsLasts \cup WordLasts \cup OtherLasts

FirstNames == {S(""), S("Maria")}

Names == {S(""), S("MBA"), S("Jane Doe, MBA"), S("Jane Doe, M.B.A., PMI-ACP"),
          S("Jane Doe MBA, Esq"), S("Jane Doe")}

\* rows of any content, rows whose last name is the whole name, and rows parsed in two
RowPool ==
    [Name : Names, First : FirstNames, Last : LastNames]
        \cup {[Name |-> l, First |-> <<>>, Last |-> l] : l \in LastNames}
        \cup {[Name |-> f \o <<Space>> \o l, First |-> f, Last |-> l] :
                  f \in FirstNames \ {<<>>}, l \in LastNames}

KnownKeys == {{}, {S("MBA")}}

InitMerger ==
    /\ pc = "idle"
    /\ file \in {write_credentials(c) : c \in InitialCatalogs}
    /\ lines = <<>>
    /\ existing = <<>>
    /\ to_add = <<>>
    /\ all_creds = <<>>
    /\ new_creds = <<>>

\* no row is under analysis
NoRow == [Name |-> <<>>, First |-> <<>>, Last |-> <<>>]

\* no run has been recorded
NoFirst == [input_rows |-> <<>>, missing_creds |-> <<>>,
            to_add |-> <<>>, all_creds |-> <<>>, new_creds |-> <<>>]

NoRuns == input_rows = <<>> /\ first = NoFirst

IdleRows ==
    /\ row = NoRow
    /\ existing_creds = {}
    /\ ran = {}
    /\ potential = <<>>
    /\ missing_creds = <<>>
    /\ examples = <<>>
    /\ potential_creds = <<>>
    /\ reasons = <<>>

Init == InitMerger /\ IdleRows /\ NoRuns

\* the operator leaves a filtered list for add_credentials.py (main, lines 89 and 99)
WriteList ==
    /\ pc = "idle"
    /\ \E ls \in LineSeqs : lines' = ls
    /\ pc' = "listed"
    /\ UNCHANGED <<file, existing, to_add, all_creds, new_creds>>
    /\ UNCHANGED rowVars
    /\ UNCHANGED runVars

\* main() of add_credentials.py, lines 97-111: load both files, merge and sort
Merged(cands, old, res) ==
    /\ pc \in {"listed", "ran"}
    /\ Len(old) + Len(cands) <= MaxCatalog
    /\ pc' = "ran"
    /\ to_add' = cands
    /\ existing' = old
    /\ all_creds' = res.all_creds
    /\ new_creds' = res.new_creds
    /\ UNCHANGED lines
    /\ UNCHANGED rowVars
    /\ UNCHANGED runVars

\* main() returning at line 118: nothing new, the file is left as it is
MainNothingToAdd ==
    \E old \in {load_existing_credentials(file)} :
        \E cands \in {load_credentials_to_add(lines)} :
            \E res \in {insert_credentials_alphabetically(old, cands)} :
                /\ res.new_creds = <<>>
                /\ Merged(cands, old, res)
                /\ UNCHANGED file

\* main() running to update_credentials_file: the array is replaced by all_creds
MainUpdate ==
    \E old \in {load_existing_credentials(file)} :
        \E cands \in {load_credentials_to_add(lines)} :
            \E res \in {insert_credentials_alphabetically(old, cands)} :
                /\ res.new_creds # <<>>
                /\ Merged(cands, old, res)
                /\ file' = write_credentials(res.all_creds)

\* the run is over: main()'s locals are gone and the filtered list is used up
Exit ==
    /\ pc = "ran"
    /\ pc' = "idle"
    /\ lines' = <<>>
    /\ existing' = <<>>
    /\ to_add' = <<>>
    /\ all_creds' = <<>>
    /\ new_creds' = <<>>
    /\ UNCHANGED file
    /\ UNCHANGED rowVars
    /\ UNCHANGED runVars

Next == WriteList \/ MainNothingToAdd \/ MainUpdate \/ Exit

Spec == Init /\ [][Next]_vars

----------------------------------------------------------------------------
(* The three analysis scripts, each applied to a one-row pair of CSV files. *)

IdleMerger ==
    /\ pc = "idle"
    /\ file = <<>>
    /\ lines = <<>>
    /\ existing = <<>>
    /\ to_add = <<>>
    /\ all_creds = <<>>
    /\ new_creds = <<>>

InitRows ==
    /\ IdleMerger
    /\ row \in RowPool
    /\ existing_creds \in KnownKeys
    /\ ran = {}
    /\ potential = <<>>
    /\ missing_creds = <<>>
    /\ examples = <<>>
    /\ potential_creds = <<>>
    /\ reasons = <<>>
    /\ NoRuns

\* find_missing_credentials.py: analyze_csvs over the row
FindMissingCredentials ==
    /\ "find_missing_credentials" \notin ran
    /\ ran' = ran \cup {"find_missing_credentials"}
    /\ potential' = fm_row_potential(row)
    /\ \E res \in {analyze_csvs(<<row>>, existing_creds)} :
           /\ missing_creds' = res.missing_creds
           /\ examples' = res.examples
    /\ UNCHANGED <<row, existing_creds, potential_creds, reasons>>
    /\ UNCHANGED mergeVars
    /\ UNCHANGED runVars

\* analyze_actual_output.py: analyze_output over the row
AnalyzeActualOutput ==
    /\ "analyze_actual_output" \notin ran
    /\ ran' = ran \cup {"analyze_actual_output"}
    /\ potential_creds' = aa_row_potential(row)
    /\ UNCHANGED <<row, existing_creds, potential, missing_creds, examples, reasons>>
    /\ UNCHANGED mergeVars
    /\ UNCHANGED runVars

\* identify_parsing_failures.py: analyze_failures over the row
IdentifyParsingFailures ==
    /\ "identify_parsing_failures" \notin ran
    /\ ran' = ran \cup {"identify_parsing_failures"}
    /\ reasons' = failure_reasons(row)
    /\ UNCHANGED <<row, existing_creds, potential, missing_creds, examples,
                   potential_creds>>
    /\ UNCHANGED mergeVars
    /\ UNCHANGED runVars

NextRows == FindMissingCredentials \/ AnalyzeActualOutput \/ IdentifyParsingFailures

SpecRows == InitRows /\ [][NextRows]_vars

----------------------------------------------------------------------------
(* Repeated runs over the same inputs: analyze_csvs over the same rows read *)
(* in another order, insert_credentials_alphabetically over the same        *)
(* candidates listed in another order, and over the catalog it returned.    *)

MaxRows == 3
MaxTokens == 3

\* rows of a dataset
RunRows == {
    [Name |-> S("Jane Doe, MBA"), First |-> S("Jane"), Last |-> S("MBA")],
    [Name |-> S("Jane Doe, M.B.A., PMI-ACP"), First |-> S("Jane"), Last |-> S("Doe")],
    [Name |-> S("Maria CPA"), First |-> S("Maria"), Last |-> S("CPA")],
    [Name |-> S("Jane Doe"), First |-> S("Jane"), Last |-> S("Doe")]}

\* candidate literals of a filtered list, as load_credentials_to_add returns them
RunTokens == {S("MD"), S("M.D."), S("cpa"), S("PMP")}

RunCatalogs == {<<>>, <<S("MD")>>, <<S("Ed.D."), S("CPA")>>}

RowSeqs == SeqsUpTo(RunRows, MaxRows) \ {<<>>}
TokenSeqs == SeqsUpTo(RunTokens, MaxTokens) \ {<<>>}

\* seq with its entries i and i + 1 exchanged
SwapNext(seq, i) == [seq EXCEPT ![i] = seq[i + 1], ![i + 1] = seq[i]]

\* the value analyze_csvs leaves in potential: that of the last row it did not skip
fm_last_potential(rs) ==
    LET kept == SelectSeq(rs, LAMBDA r : r.Name # <<>> /\ r.Last # <<>>)
    IN  IF kept = <<>> THEN <<>> ELSE fm_row_potential(kept[Len(kept)])

\* a run has a dataset to analyse or a candidate list to merge into a catalog
InitRuns ==
    /\ pc = "idle"
    /\ file = <<>>
    /\ lines = <<>>
    /\ all_creds = <<>>
    /\ new_creds = <<>>
    /\ row = NoRow
    /\ ran = {}
    /\ potential = <<>>
    /\ missing_creds = <<>>
    /\ examples = <<>>
    /\ potential_creds = <<>>
    /\ reasons = <<>>
    /\ first = NoFirst
    /\ \/ /\ input_rows \in RowSeqs
          /\ existing_creds \in KnownKeys
          /\ existing = <<>>
          /\ to_add = <<>>
       \/ /\ input_rows = <<>>
          /\ existing_creds = {}
          /\ existing \in RunCatalogs
          /\ to_add \in TokenSeqs

\* analyze_csvs over rs: the Counter, the examples and the last candidates
Analyzed(rs) ==
    /\ input_rows' = rs
    /\ ran' = ran \cup {"find_missing_credentials"}
    /\ potential' = fm_last_potential(rs)
    /\ \E res \in {analyze_csvs(rs, existing_creds)} :
           /\ missing_creds' = res.missing_creds
           /\ examples' = res.examples
           /\ first' = IF "find_missing_credentials" \in ran THEN first
                        ELSE [first EXCEPT !.input_rows = rs,
                                           !.missing_creds = res.missing_creds]
    /\ UNCHANGED <<row, existing_creds, potential_creds, reasons>>
    /\ UNCHANGED mergeVars

\* find_missing_credentials.py over the dataset as it is
AnalyzeCsvs ==
    /\ input_rows # <<>>
    /\ "find_missing_credentials" \notin ran
    /\ Analyzed(input_rows)

\* find_missing_credentials.py over the same rows, two neighbours exchanged
AnalyzeCsvsReordered ==
    /\ "find_missing_credentials" \in ran
    /\ \E i \in 1..(Len(input_rows) - 1) :
           /\ input_rows[i] # input_rows[i + 1]
           /\ Analyzed(SwapNext(input_rows, i))

\* insert_credentials_alphabetically(old, cands), its results left in main()'s locals
Inserted(old, cands, label) ==
    /\ pc' = label
    /\ existing' = old
    /\ to_add' = cands
    /\ \E res \in {insert_credentials_alphabetically(old, cands)} :
           /\ all_creds' = res.all_creds
           /\ new_creds' = res.new_creds
           /\ first' = IF pc # "idle" THEN first
                        ELSE [first EXCEPT !.to_add = cands,
                                           !.all_creds = res.all_creds,
                                           !.new_creds = res.new_creds]
    /\ UNCHANGED <<file, lines, input_rows>>
    /\ UNCHANGED rowVars

\* the candidate list merged into the catalog
InsertCredentials ==
    /\ pc = "idle"
    /\ to_add # <<>>
    /\ Inserted(existing, to_add, "ran")

\* the same candidates, two neighbours exchanged, merged into the same catalog
InsertCredentialsReordered ==
    /\ pc = "ran"
    /\ \E i \in 1..(Len(to_add) - 1) :
           /\ to_add[i] # to_add[i + 1]
           /\ Inserted(existing, SwapNext(to_add, i), "ran")

\* the same candidates merged into the catalog the last merge returned
InsertCredentialsAgain ==
    /\ pc \in {"ran", "again"}
    /\ Inserted(all_creds, to_add, "again")

NextRuns ==
    \/ AnalyzeCsvs
    \/ AnalyzeCsvsReordered
    \/ InsertCredentials
    \/ InsertCredentialsReordered
    \/ InsertCredentialsAgain

SpecRuns == InitRuns /\ [][NextRuns]_vars

----------------------------------------------------------------------------
(* Properties of the catalog merger.                                        *)

\* normalizedKey of a catalog literal: periods removed, upper-cased
normalizedKey(literal) == normalize(literal)

UniqueKeys(catalog) ==
    \A i, j \in 1..Len(catalog) :
        i # j => normalizedKey(catalog[i]) # normalizedKey(catalog[j])

\* a <= b in the lexicographic order of code points
RECURSIVE LexLeq(_, _)
LexLeq(a, b) ==
    IF a = <<>> THEN TRUE
    ELSE IF b = <<>> THEN FALSE
    ELSE IF Head(a) # Head(b) THEN Head(a) < Head(b)
    ELSE LexLeq(Tail(a), Tail(b))

\* (normalizedKey(a), a) <= (normalizedKey(b), b)
PairLeq(a, b) ==
    IF normalizedKey(a) = normalizedKey(b) THEN LexLeq(a, b)
    ELSE LexLeq(normalizedKey(a), normalizedKey(b))

Count(seq, x) == Cardinality({i \in 1..Len(seq) : seq[i] = x})

Elems(seq) == {seq[i] : i \in 1..Len(seq)}

\* the candidates whose key is the key of no entry of catalog, in the order supplied
RECURSIVE GenuinelyNew(_, _)
GenuinelyNew(catalog, candidates) ==
    IF candidates = <<>> THEN <<>>
    ELSE LET c == Head(candidates)
             known == \E i \in 1..Len(catalog) :
                          normalizedKey(catalog[i]) = normalizedKey(c)
         IN  (IF known THEN <<>> ELSE <<c>>) \o GenuinelyNew(catalog, Tail(candidates))

\* C1: a merge into a catalog whose normalized keys are pairwise distinct returns
\* a catalog whose normalized keys are pairwise distinct.
C1_UniqueKeysPreserved ==
    (pc = "ran" /\ UniqueKeys(existing)) => UniqueKeys(all_creds)

\* C2: the catalog a merge returns is in ascending order of (normalizedKey, literal),
\* whatever the order of the catalog it was given.
C2_MergedCatalogSorted ==
    pc = "ran" =>
        \A i \in 1..(Len(all_creds) - 1) : PairLeq(all_creds[i], all_creds[i + 1])

C2_Witness ==
    /\ pc = "ran"
    /\ Len(existing) >= 2
    /\ ~PairLeq(existing[1], existing[2])
    /\ new_creds # <<>>
    /\ Len(all_creds) >= 3

\* C3: "added" is exactly the candidates whose normalized key matches no existing
\* entry, in the order they were supplied.
C3_AddedIsTheNewCandidates ==
    pc = "ran" => new_creds = GenuinelyNew(existing, to_add)

C3_Witness ==
    /\ pc = "ran"
    /\ S("MD") \in Elems(existing)
    /\ to_add = <<S("M.D."), S("MD")>>
    /\ new_creds = <<>>

\* C4: an empty candidate line is dropped: the empty string is never in "added" and
\* never a new entry of the merged catalog.
C4_EmptyCandidateDropped ==
    pc = "ran" =>
        /\ <<>> \notin Elems(new_creds)
        /\ Count(all_creds, <<>>) = Count(existing, <<>>)

C4_Witness ==
    /\ pc = "ran"
    /\ <<>> \in Elems(lines)
    /\ Len(lines) >= 2
    /\ new_creds # <<>>

\* C5: the merged catalog is, as a multiset, the existing entries plus "added"; with
\* no candidates it is the existing entries re-sorted and "added" is empty.
C5_NothingLostNothingInvented ==
    pc = "ran" =>
        /\ \A x \in Elems(all_creds) \cup Elems(existing) \cup Elems(new_creds) :
               Count(all_creds, x) = Count(existing, x) + Count(new_creds, x)
        /\ Len(all_creds) = Len(existing) + Len(new_creds)
        /\ to_add = <<>> =>
               /\ new_creds = <<>>
               /\ \A x \in Elems(all_creds) \cup Elems(existing) :
                      Count(all_creds, x) = Count(existing, x)

C5_Witness ==
    /\ pc = "ran"
    /\ existing # <<>>
    /\ new_creds # <<>>
    /\ Len(new_creds) < Len(to_add)

----------------------------------------------------------------------------
(* Properties of the row analyses.                                          *)

NoDuplicates(seq) == \A i, j \in 1..Len(seq) : i # j => seq[i] # seq[j]

IsLetter(c) == (c >= 65 /\ c <= 90) \/ (c >= 97 /\ c <= 122)

\* the number of whitespace-separated words of a field: the places where a word starts
WordCount(field) ==
    Cardinality({i \in 1..Len(field) :
                    /\ ~IsSpace(field[i])
                    /\ (i = 1 \/ IsSpace(field[i - 1]))})

HasHyphen(field) == \E i \in 1..Len(field) : field[i] = Hyphen

\* two to ten upper-case ASCII letters and nothing else
IsShortAllCaps(field) ==
    /\ Len(field) >= 2
    /\ Len(field) <= 10
    /\ \A i \in 1..Len(field) : field[i] >= 65 /\ field[i] <= 90

\* a row "<first> <last>" with a plain first name and a mixed-case hyphenated surname
IsHyphenatedSurnameRow(r) ==
    /\ r.First # <<>>
    /\ \A i \in 1..Len(r.First) : IsLetter(r.First[i])
    /\ ~has_job_title(r.First)
    /\ \A i \in 1..Len(r.Last) : IsLetter(r.Last[i]) \/ r.Last[i] = Hyphen
    /\ HasHyphen(r.Last)
    /\ IsLetter(r.Last[1])
    /\ IsLetter(r.Last[Len(r.Last)])
    /\ \E i \in 1..Len(r.Last) : r.Last[i] >= 97 /\ r.Last[i] <= 122
    /\ ~has_job_title(r.Last)
    /\ r.Name = r.First \o <<Space>> \o r.Last

AllScripts ==
    {"find_missing_credentials", "analyze_actual_output", "identify_parsing_failures"}

\* C6: within one row no credential token is reported twice, and the row counts once
\* for each of its tokens; "Jane Doe, MBA" with last name "MBA" yields exactly "MBA".
C6_NoTokenReportedTwice ==
    "find_missing_credentials" \in ran =>
        /\ NoDuplicates(potential)
        /\ \A token \in DOMAIN missing_creds : missing_creds[token] = 1
        /\ (row.Name = S("Jane Doe, MBA") /\ row.Last = S("MBA")) =>
               potential = <<S("MBA")>>

\* C7: a row whose last name is empty or equal to the original name yields no
\* credential candidate.
C7_OnlyWhenLastNameDiffers ==
    (row.Last = <<>> \/ row.Last = row.Name) =>
        /\ "find_missing_credentials" \in ran =>
               potential = <<>> /\ DOMAIN missing_creds = {}
        /\ "analyze_actual_output" \in ran => potential_creds = <<>>

\* C8: a last name of two to ten upper-case letters that differs from the original
\* name (of a row the scripts do not skip) is itself a candidate.
C8_AllCapsLastNameIsCandidate ==
    (IsShortAllCaps(row.Last) /\ row.Last # row.Name /\ row.Name # <<>>) =>
        /\ "find_missing_credentials" \in ran => row.Last \in Elems(potential)
        /\ "analyze_actual_output" \in ran => row.Last \in Elems(potential_creds)

\* C9: a row "<first> <last>" with a legitimate hyphenated surname gets no finding
\* from any of the analyses.
C9_HyphenatedSurnameNotFlagged ==
    (ran = AllScripts /\ IsHyphenatedSurnameRow(row)) =>
        /\ potential = <<>>
        /\ potential_creds = <<>>
        /\ reasons = <<>>

\* C10: multiple_words_in_last_name is raised exactly when the last name has three or
\* more words, or has two words and no hyphen anywhere.
C10_MultiWordExactly ==
    "identify_parsing_failures" \in ran =>
        ("multiple_words_in_last_name" \in Elems(reasons)
            <=> \/ WordCount(row.Last) >= 3
                \/ WordCount(row.Last) = 2 /\ ~HasHyphen(row.Last))

C10_Witness ==
    /\ "identify_parsing_failures" \in ran
    /\ WordCount(row.Last) = 2
    /\ HasHyphen(row.Last)
    /\ "multiple_words_in_last_name" \notin Elems(reasons)

----------------------------------------------------------------------------
(* Where the candidates of a row come from.                                 *)

\* upper-case letters, one hyphen, upper-case letters
IsUpperHyphenUpper(field) ==
    \E h \in 2..(Len(field) - 1) :
        /\ field[h] = Hyphen
        /\ \A i \in (1..Len(field)) \ {h} : field[i] >= 65 /\ field[i] <= 90

IsCredentialShaped(field) == IsShortAllCaps(field) \/ IsUpperHyphenUpper(field)

CommaPositions(text) == {i \in 1..Len(text) : text[i] = Comma}

\* the comma-separated pieces of text that lie after its first comma
CommaFragments(text) ==
    {SubSeq(text, a + 1, b - 1) :
        <<a, b>> \in {<<a, b>> \in CommaPositions(text)
                                    \X (CommaPositions(text) \cup {Len(text) + 1}) :
                         /\ a < b
                         /\ \A i \in (a + 1)..(b - 1) : text[i] # Comma}}

\* a fragment with its periods and spaces removed
FragmentToken(fragment) == remove(remove(strip(fragment), Dot), Space)

\* the part of text before its first comma (all of it when it has no comma)
BeforeFirstComma(text) ==
    IF CommaPositions(text) = {} THEN text
    ELSE SubSeq(text, 1, SetMin(CommaPositions(text)) - 1)

FromLastName(c, r) == c = r.Last /\ IsCredentialShaped(c)

FromAfterComma(c, r) ==
    /\ IsCredentialShaped(c)
    /\ \E fragment \in CommaFragments(r.Name) : c = FragmentToken(fragment)

\* c is the last of at least two words before the first comma, and is all caps
FromLastWordBeforeComma(c, r) ==
    LET before == strip(BeforeFirstComma(r.Name))
    IN  /\ IsShortAllCaps(c)
        /\ \E k \in 2..Len(before) :
               /\ c = SubSeq(before, k, Len(before))
               /\ IsSpace(before[k - 1])

\* c is the last-name field without its outer whitespace, or the end of it
EndOfLastName(c, r) ==
    LET last == strip(r.Last)
    IN  \E k \in 1..Len(last) : c = SubSeq(last, k, Len(last))

\* C12 as stated: every candidate of a row is the whole last-name field or a
\* fragment after the first comma of the original name, of one of the two shapes;
\* none is taken from the text before the first comma.
C12_OnlyThreeHeuristics ==
    /\ "find_missing_credentials" \in ran =>
           \A c \in Elems(potential) : FromLastName(c, row) \/ FromAfterComma(c, row)
    /\ "analyze_actual_output" \in ran =>
           \A c \in Elems(potential_creds) :
               FromLastName(c, row) \/ FromAfterComma(c, row)

\* C12, amended: every candidate of find_missing_credentials.py is the whole
\* last-name field, a fragment after the first comma, or the all-caps last word of
\* at least two words before the first comma; every candidate of
\* analyze_actual_output.py is the last-name field or the end of it.
C12_CandidateSources ==
    /\ "find_missing_credentials" \in ran =>
           \A c \in Elems(potential) :
               \/ FromLastName(c, row)
               \/ FromAfterComma(c, row)
               \/ FromLastWordBeforeComma(c, row)
    /\ "analyze_actual_output" \in ran =>
           \A c \in Elems(potential_creds) : EndOfLastName(c, row)

C12_Witness ==
    /\ "find_missing_credentials" \in ran
    /\ CommaPositions(row.Name) # {}
    /\ \E c \in Elems(potential) :
           /\ FromLastWordBeforeComma(c, row)
           /\ ~FromLastName(c, row)
           /\ ~FromAfterComma(c, row)

----------------------------------------------------------------------------
(* Properties of repeated runs.                                             *)

\* C11: whatever the order in which the same rows are read, every token ends with the
\* same count; whatever the order in which the same candidates are listed, the merge
\* into the same catalog returns the same sequence.
C11_OrderIndependent ==
    /\ "find_missing_credentials" \in ran => missing_creds = first.missing_creds
    /\ pc = "ran" => all_creds = first.all_creds

C11_Witness ==
    /\ "find_missing_credentials" \in ran
    /\ input_rows # first.input_rows
    /\ \E token \in DOMAIN missing_creds : missing_creds[token] >= 3
    /\ Cardinality(DOMAIN missing_creds) >= 2

\* C13: merging the same candidates into the catalog a merge returned adds nothing
\* and returns that catalog, entry for entry, however often it is repeated.
C13_RemergeIsNoOp ==
    pc = "again" => new_creds = <<>> /\ all_creds = existing

C13_Witness ==
    /\ pc = "again"
    /\ Len(first.new_creds) >= 2
    /\ Len(existing) > Len(first.new_creds)
    /\ new_creds = <<>>

====
